---- MODULE Spec2Model ----
(***************************************************************************)
(* A model of fish.py, the command-line client of the Fi$h accounting API. *)
(* Python strings are TLA+ strings; a character is a string of length 1.   *)
(***************************************************************************)
EXTENDS Integers, Sequences, FiniteSets, TLC

(***************************************************************************)
(* Python str primitives                                                   *)
(***************************************************************************)

\* The printable ASCII characters in code point order: 32 to 95 and 97 to 126
\* (the grave accent, 96, cannot be written in a TLA+ string and occurs nowhere).
AsciiLow == " !\"#$%&'()*+,-./0123456789:;<=>?@ABCDEFGHIJKLMNOPQRSTUVWXYZ[\\]^_"
AsciiHigh == "abcdefghijklmnopqrstuvwxyz{|}~"

Char(s, i) == SubSeq(s, i, i)

\* ord(c) for a printable ASCII character.
CodePoint == [c \in {Char(AsciiLow, i) : i \in 1..Len(AsciiLow)}
                     \cup {Char(AsciiHigh, i) : i \in 1..Len(AsciiHigh)} |->
                 IF \E i \in 1..Len(AsciiLow) : Char(AsciiLow, i) = c
                 THEN 31 + (CHOOSE i \in 1..Len(AsciiLow) : Char(AsciiLow, i) = c)
                 ELSE 96 + (CHOOSE i \in 1..Len(AsciiHigh) : Char(AsciiHigh, i) = c)]

chr(n) == IF n <= 95 THEN Char(AsciiLow, n - 31) ELSE Char(AsciiHigh, n - 96)

\* str.lower() on one character: A-Z (65..90) map to a-z.
LowerChar == [c \in DOMAIN CodePoint |->
                 IF CodePoint[c] >= 65 /\ CodePoint[c] <= 90 THEN chr(CodePoint[c] + 32) ELSE c]

RECURSIVE lower(_)
lower(s) == IF s = "" THEN "" ELSE LowerChar[Char(s, 1)] \o lower(SubSeq(s, 2, Len(s)))

RECURSIVE lstrip(_)
lstrip(s) == IF s # "" /\ Char(s, 1) = " " THEN lstrip(SubSeq(s, 2, Len(s))) ELSE s

RECURSIVE rstrip(_)
rstrip(s) == IF s # "" /\ Char(s, Len(s)) = " " THEN rstrip(SubSeq(s, 1, Len(s) - 1)) ELSE s

\* str.strip(): the only whitespace of the model's alphabet is the space.
strip(s) == rstrip(lstrip(s))

\* str.startswith(prefix)
startswith(s, prefix) == Len(prefix) <= Len(s) /\ SubSeq(s, 1, Len(prefix)) = prefix

\* str.replace(c, "") for a single character c.
RECURSIVE remove_char(_, _)
remove_char(s, c) ==
    IF s = "" THEN ""
    ELSE (IF Char(s, 1) = c THEN "" ELSE Char(s, 1)) \o remove_char(SubSeq(s, 2, Len(s)), c)

\* Python's s > t on str: lexicographic by code point, a proper prefix is smaller.
RECURSIVE str_gt(_, _)
str_gt(s, t) ==
    IF s = "" THEN FALSE
    ELSE IF t = "" THEN TRUE
    ELSE IF Char(s, 1) # Char(t, 1) THEN CodePoint[Char(s, 1)] > CodePoint[Char(t, 1)]
    ELSE str_gt(SubSeq(s, 2, Len(s)), SubSeq(t, 2, Len(t)))

\* str.split(sep) for a single-character separator.
RECURSIVE split(_, _)
split(s, sep) ==
    IF \A i \in 1..Len(s) : Char(s, i) # sep THEN <<s>>
    ELSE LET k == CHOOSE i \in 1..Len(s) :
                     Char(s, i) = sep /\ \A j \in 1..(i - 1) : Char(s, j) # sep
         IN  <<SubSeq(s, 1, k - 1)>> \o split(SubSeq(s, k + 1, Len(s)), sep)

Digits == "0123456789"
IsDigit(c) == \E i \in 1..10 : Char(Digits, i) = c
DigitVal(c) == (CHOOSE i \in 1..10 : Char(Digits, i) = c) - 1
DigitChar(d) == Char(Digits, d + 1)

\* Python's None; a value that may be None is the 1-tuple <<v>> otherwise.
None == <<>>
Some(v) == <<v>>

\* The outcome of a conversion that raised ValueError.
ValueError == "<ValueError>"

(***************************************************************************)
(* Configuration tables                                                    *)
(***************************************************************************)

\* Canonical vendor names mapped from raw aliases, in declaration order.
VENDOR_ALIASES == <<
    <<"Ace Hardware", <<"Ace Hardware">> >>,
    <<"Airbnb", <<"AirBnb">> >>,
    <<"Amazon", <<"Amazon">> >>,
    <<"Anderson Law", <<"Anderson">> >>,
    <<"ARCO", <<"Arco?">> >>,
    <<"Ashland Mobile", <<"ashland mobile">> >>,
    <<"Best Buy", <<"Best Buy">> >>,
    <<"Anthropic (Claude)", <<"Claude", "claud">> >>,
    <<"DigitalOcean", <<"Digital Ocean">> >>,
    <<"Discord / Mitch Ray", <<"Discord Mitch Ray", "mitchray TA">> >>,
    <<"Enterprise Rent-A-Car", <<"Enterprise Rentacar">> >>,
    <<"Eugene Chevron", <<"Eugene Chevron">> >>,
    <<"EventHelper", <<"EventHelper">> >>,
    <<"Meta (Facebook)", <<"Facebook Vendor">> >>,
    <<"Fiverr", <<"Fiverr">> >>,
    <<"GoDaddy", <<"Godaddy">> >>,
    <<"Goodstack", <<"goodstack">> >>,
    <<"Harbor Freight", <<"Harbor Freight">> >>,
    <<"Harland Clarke", <<"Harlond Clarke">> >>,
    <<"ITU Online Training", <<"ITU", "ITU Training", "itu online">> >>,
    <<"Jess Langpap", <<"Jess Langpap">> >>,
    <<"JetBrains", <<"JetBrains">> >>,
    <<"Mail Stop", <<"Mail Stop", "mailstop">> >>,
    <<"Matt Campbell", <<"Matt Campbell", "Matt Mileage OR">> >>,
    <<"Medford Airport", <<"Medford Airport">> >>,
    <<"Mt. Ashland Foundation", <<"Mt Ashland Foundation">> >>,
    <<"Oregon Secretary of State", <<"OR Secretary of State", "Oregon SOS">> >>,
    <<"OpenAI", <<"OpenAI", "Chatgpt", "chatgpt">> >>,
    <<"Pilot Flying J", <<"Pilot">> >>,
    <<"Replit", <<"Replit", "replit">> >>,
    <<"SmallPDF", <<"SmalPDF">> >>,
    <<"Stripe", <<"stripe">> >>,
    <<"TradingView", <<"Trading View">> >>,
    <<"Verizon", <<"verizon">> >>,
    <<"Walmart", <<"Walmart">> >>,
    <<"Wells Fargo", <<"Wells Fargo">> >>,
    <<"Zach Pistole", <<"Zach Pistole">> >> >>

\* Account ID shorthand map (the entries the modelled commands use).
ACCT == [checking |-> 1, accounts_payable |-> 12, reimb_payable |-> 13,
         utilities |-> 44, office_supplies |-> 47, software_tech |-> 48,
         postage_shipping |-> 49, telephone_internet |-> 51, conference_reg |-> 56,
         marketing |-> 69, misc_expense |-> 74]

\* Description keyword -> (account_id, expense_subcategory_id or None, functional_class),
\* a dict in insertion order.
DESCRIPTION_MAP == <<
    <<"phone stipend",        <<ACCT.telephone_internet, Some(14), "management_general">> >>,
    <<"home office",          <<ACCT.office_supplies, Some(10), "management_general">> >>,
    <<"utilities",            <<ACCT.utilities, Some(7), "management_general">> >>,
    <<"internet",             <<ACCT.telephone_internet, Some(14), "management_general">> >>,
    <<"llm coding",           <<ACCT.software_tech, Some(11), "program">> >>,
    <<"investment channel",   <<ACCT.misc_expense, None, "management_general">> >>,
    <<"llm",                  <<ACCT.software_tech, Some(11), "program">> >>,
    <<"monthly subscription", <<ACCT.software_tech, Some(11), "program">> >>,
    <<"fundraising",          <<ACCT.software_tech, Some(11), "program">> >>,
    <<"training",             <<ACCT.conference_reg, Some(19), "program">> >>,
    <<"domain renew",         <<ACCT.marketing, Some(28), "program">> >>,
    <<"pobox",                <<ACCT.postage_shipping, Some(12), "management_general">> >> >>

(***************************************************************************)
(* Decimal naturals of any size: little-endian sequences of digits 0..9,   *)
(* without leading zeros (<<>> is 0).  They carry the exact values behind  *)
(* Python's float, whose 53-bit significand exceeds TLC's integers.        *)
(***************************************************************************)

RECURSIVE BNorm(_)
BNorm(a) == IF a # <<>> /\ a[Len(a)] = 0 THEN BNorm(SubSeq(a, 1, Len(a) - 1)) ELSE a

RECURSIVE BAddC(_, _, _)
BAddC(a, b, c) ==
    IF a = <<>> /\ b = <<>> THEN (IF c = 0 THEN <<>> ELSE <<c>>)
    ELSE LET x == (IF a = <<>> THEN 0 ELSE Head(a)) + (IF b = <<>> THEN 0 ELSE Head(b)) + c
         IN  <<x % 10>> \o BAddC(IF a = <<>> THEN <<>> ELSE Tail(a),
                                  IF b = <<>> THEN <<>> ELSE Tail(b), x \div 10)

BAdd(a, b) == BAddC(a, b, 0)

RECURSIVE BMulC(_, _, _)
BMulC(a, k, c) ==
    IF a = <<>> THEN (IF c = 0 THEN <<>> ELSE <<c % 10>> \o BMulC(<<>>, k, c \div 10))
    ELSE LET x == Head(a) * k + c IN <<x % 10>> \o BMulC(Tail(a), k, x \div 10)

\* a * k for a small natural k
BMul(a, k) == BNorm(BMulC(a, k, 0))

BDouble(a) == BMul(a, 2)
BOdd(a) == a # <<>> /\ Head(a) % 2 = 1
\* a div 2, as (5 * a) div 10
BHalf(a) == LET x == BMul(a, 5) IN IF x = <<>> THEN <<>> ELSE Tail(x)

RECURSIVE BCmpFrom(_, _, _)
BCmpFrom(a, b, i) ==
    IF i = 0 THEN 0
    ELSE IF a[i] # b[i] THEN (IF a[i] < b[i] THEN -1 ELSE 1)
    ELSE BCmpFrom(a, b, i - 1)

\* -1, 0 or 1 as a < b, a = b or a > b
BCmp(a, b) ==
    IF Len(a) # Len(b) THEN (IF Len(a) < Len(b) THEN -1 ELSE 1) ELSE BCmpFrom(a, b, Len(a))

\* The digits of a decimal numeral (most significant first) as a natural.
RECURSIVE BOfDigits(_)
BOfDigits(s) == IF s = "" THEN <<>> ELSE BOfDigits(SubSeq(s, 2, Len(s))) \o <<DigitVal(Char(s, 1))>>

RECURSIVE BDigits(_)
BDigits(a) == IF a = <<>> THEN "" ELSE BDigits(Tail(a)) \o DigitChar(Head(a))

(***************************************************************************)
(* Python float: an IEEE 754 double, here a non-negative one, held as the  *)
(* exact value m * 2^e with m <= 2^53.  Every operation rounds the exact   *)
(* result to 53 significant bits, ties to even.                            *)
(***************************************************************************)

\* 2^53 and 2^54: a significand has 53 bits.
TwoToMantissa == BOfDigits("9007199254740992")
TwoToMantissaPlus1 == BOfDigits("18014398509481984")

FloatZero == [m |-> <<>>, e |-> 0, raised |-> FALSE]
\* float() raised ValueError
FloatError == [m |-> <<>>, e |-> 0, raised |-> TRUE]

\* Halve q until it is below 2^53, keeping the last bit shifted out (g) and
\* whether anything below it was non-zero (st), then round to nearest, ties to even.
RECURSIVE RoundToDouble(_, _, _, _)
RoundToDouble(q, e, g, st) ==
    IF BCmp(q, TwoToMantissa) < 0
    THEN [m |-> IF g /\ (st \/ BOdd(q)) THEN BAdd(q, <<1>>) ELSE q, e |-> e, raised |-> FALSE]
    ELSE RoundToDouble(BHalf(q), e + 1, BOdd(q), st \/ g)

\* x doubled until x div 10^k has more than 54 bits: <<x * 2^s, s>>
RECURSIVE ScaleUp(_, _, _)
ScaleUp(x, k, s) ==
    IF Len(x) > k /\ BCmp(SubSeq(x, k + 1, Len(x)), TwoToMantissaPlus1) >= 0 THEN <<x, s>>
    ELSE ScaleUp(BDouble(x), k, s + 1)

\* The double nearest to n / 10^k.
FloatOfDecimal(n, k) ==
    IF n = <<>> THEN FloatZero
    ELSE LET xs == ScaleUp(n, k, 0)
             x  == xs[1]
         IN  RoundToDouble(SubSeq(x, k + 1, Len(x)), 0 - xs[2], FALSE,
                           \E i \in 1..k : x[i] # 0)

\* float(s) accepts, of the model's alphabet, digits with at most one "." and
\* at least one digit, surrounded by whitespace; anything else raises ValueError.
IsDecimalLiteral(s) ==
    /\ \A i \in 1..Len(s) : IsDigit(Char(s, i)) \/ Char(s, i) = "."
    /\ Cardinality({i \in 1..Len(s) : Char(s, i) = "."}) <= 1
    /\ \E i \in 1..Len(s) : IsDigit(Char(s, i))

py_float(str) ==
    LET s == strip(str) IN
    IF ~IsDecimalLiteral(s) THEN FloatError
    ELSE LET parts == split(s, ".")
             frac  == IF Len(parts) = 2 THEN parts[2] ELSE ""
         IN  FloatOfDecimal(BNorm(BOfDigits(parts[1] \o frac)), Len(frac))

RECURSIVE DoubleN(_, _)
DoubleN(y, n) == IF n = 0 \/ y = <<>> THEN y ELSE DoubleN(BDouble(y), n - 1)

\* x + y on floats
float_add(x, y) ==
    IF x.m = <<>> THEN y
    ELSE IF y.m = <<>> THEN x
    ELSE LET lo == IF x.e <= y.e THEN x ELSE y
             hi == IF x.e <= y.e THEN y ELSE x
         IN  RoundToDouble(BAdd(lo.m, DoubleN(hi.m, hi.e - lo.e)), lo.e, FALSE, FALSE)

\* y halved n times, rounded to nearest, ties to even
RECURSIVE HalveRound(_, _, _, _)
HalveRound(y, n, g, st) ==
    IF n = 0 THEN (IF g /\ (st \/ BOdd(y)) THEN BAdd(y, <<1>>) ELSE y)
    ELSE IF y = <<>> /\ ~g /\ ~st THEN <<>>
    ELSE HalveRound(BHalf(y), n - 1, BOdd(y), st \/ g)

\* A natural number of cents as a numeral with two decimals.
CentsToStr(c) ==
    LET d == BDigits(c)
        p == IF Len(d) >= 3 THEN d ELSE SubSeq("000", 1, 3 - Len(d)) \o d
    IN  SubSeq(p, 1, Len(p) - 2) \o "." \o SubSeq(p, Len(p) - 1, Len(p))

\* f"{x:.2f}": the exact value of x rounded to cents, ties to even.
format_2f(x) ==
    LET y == IF x.m = <<>> THEN <<>> ELSE <<0, 0>> \o x.m
    IN  CentsToStr(IF x.e >= 0 THEN DoubleN(y, x.e) ELSE HalveRound(y, 0 - x.e, FALSE, FALSE))

(***************************************************************************)
(* Python int and its formatting                                           *)
(***************************************************************************)

RECURSIVE NatOfDigits(_, _)
NatOfDigits(s, acc) ==
    IF s = "" THEN acc ELSE NatOfDigits(SubSeq(s, 2, Len(s)), 10 * acc + DigitVal(Char(s, 1)))

\* int(s) accepts, of the model's alphabet, an optional sign and one or more
\* digits, surrounded by whitespace; anything else raises ValueError.
py_int(str) ==
    LET s    == strip(str)
        sign == s # "" /\ Char(s, 1) \in {"+", "-"}
        d    == IF sign THEN SubSeq(s, 2, Len(s)) ELSE s
    IN  IF d = "" \/ \E i \in 1..Len(d) : ~IsDigit(Char(d, i))
        THEN [raised |-> TRUE, v |-> 0]
        ELSE [raised |-> FALSE,
              v |-> IF sign /\ Char(s, 1) = "-" THEN 0 - NatOfDigits(d, 0) ELSE NatOfDigits(d, 0)]

RECURSIVE NatToStr(_)
NatToStr(n) == IF n < 10 THEN DigitChar(n) ELSE NatToStr(n \div 10) \o DigitChar(n % 10)

\* str(n)
IntToStr(n) == IF n < 0 THEN "-" \o NatToStr(0 - n) ELSE NatToStr(n)

RECURSIVE ZeroPad(_, _)
\* f"{n:d}": the numeral without a minimum width.
format_0d_unpadded(n, width) == IntToStr(n)

ZeroPad(s, width) == IF Len(s) >= width THEN s ELSE ZeroPad("0" \o s, width)

\* f"{n:0{width}d}": zeros between the sign and the digits, up to width characters
format_0d(n, width) ==
    IF n < 0 THEN "-" \o ZeroPad(NatToStr(0 - n), width - 1) ELSE ZeroPad(NatToStr(n), width)

(***************************************************************************)
(* Parsing helpers of the expense report                                   *)
(***************************************************************************)

\* parse_money(s): "$" and "," removed, "" is "0.00", else float rendered with
\* two decimals; ValueError when float() raises it.
parse_money(str) ==
    LET s == remove_char(remove_char(strip(str), "$"), ",") IN
    IF s = "" THEN "0.00"
    ELSE IF py_float(s).raised THEN ValueError
    ELSE format_2f(py_float(s))

\* parse_date_mdy(s): M/D/YY to YYYY-MM-DD; ValueError on a field count other
\* than 3 or a field int() rejects.
parse_date_mdy(str) ==
    LET parts == split(strip(str), "/") IN
    IF Len(parts) # 3 THEN ValueError
    ELSE LET m == py_int(parts[1])
             d == py_int(parts[2])
             y == py_int(parts[3])
         IN  IF m.raised \/ d.raised \/ y.raised THEN ValueError
             ELSE format_0d(IF y.v < 100 THEN y.v + 2000 ELSE y.v, 4) \o "-"
                  \o format_0d(m.v, 2) \o "-" \o format_0d(d.v, 2)

(***************************************************************************)
(* Description classifier                                                  *)
(***************************************************************************)

\* The value of the first rule from index i on whose keyphrase s starts with.
RECURSIVE first_startswith(_, _, _)
first_startswith(table, s, i) ==
    IF i > Len(table) THEN None
    ELSE IF startswith(s, table[i][1]) THEN table[i][2]
    ELSE first_startswith(table, s, i + 1)

\* The indices of the rules whose keyphrase is s (a dict holds a key once).
dict_find(table, s) == {i \in 1..Len(table) : table[i][1] = s}

\* map_description without the dict lookup: the loop over the rules only.
map_description_in_loop_only(table, desc) == first_startswith(table, strip(lower(desc)), 1)

\* map_description over a given rule table: the dict lookup of the lowercased,
\* stripped description first, then the loop over the rules in order.
map_description_in(table, desc) ==
    LET lower_ == strip(lower(desc)) IN
    IF dict_find(table, lower_) # {}
    THEN table[CHOOSE i \in dict_find(table, lower_) : TRUE][2]
    ELSE first_startswith(table, lower_, 1)

map_description(desc) == map_description_in(DESCRIPTION_MAP, desc)

(***************************************************************************)
(* Local vendor database                                                   *)
(***************************************************************************)

\* dict.get(k): None or the value, wrapped
DictGet(d, k) == IF k \in DOMAIN d THEN Some(d[k]) ELSE None

\* d[k] = v
DictSet(d, k, v) == [x \in DOMAIN d \cup {k} |-> IF x = k THEN v ELSE d[x]]

\* load_vendor_db(): the parsed file, or the empty structure when it is absent
load_vendor_db(file) == IF file = None THEN [vendors |-> <<>>, alias_map |-> <<>>] ELSE file[1]

\* save_vendor_db(db): the new content of the file
save_vendor_db(db) == Some(db)

\* The (canonical, alias) pairs of VENDOR_ALIASES in iteration order.
AliasPairs ==
    LET RECURSIVE Pairs(_)
        Pairs(i) == IF i > Len(VENDOR_ALIASES) THEN <<>>
                    ELSE [j \in 1..Len(VENDOR_ALIASES[i][2]) |->
                             <<VENDOR_ALIASES[i][1], VENDOR_ALIASES[i][2][j]>>] \o Pairs(i + 1)
    IN  Pairs(1)

\* The alias_map rebuild_alias_map leaves: each lowercased alias to the canonical
\* name of the last pair that assigns it.
AliasIndex ==
    LET keys == {lower(AliasPairs[i][2]) : i \in 1..Len(AliasPairs)} IN
    [k \in keys |->
        AliasPairs[CHOOSE i \in 1..Len(AliasPairs) :
                       /\ lower(AliasPairs[i][2]) = k
                       /\ \A j \in (i + 1)..Len(AliasPairs) : lower(AliasPairs[j][2]) # k][1]]

\* The rebuild starting from an empty database instead of an empty alias map.
rebuild_alias_map_from_scratch(db) == [vendors |-> <<>>, alias_map |-> AliasIndex]

rebuild_alias_map(db) == [db EXCEPT !.alias_map = AliasIndex]

\* lookup_vendor_id(raw_name, db): the ID, or None when the alias is unknown or
\* its canonical name has no record.
lookup_vendor_id(raw_name, db) ==
    LET canonical == DictGet(db.alias_map, lower(raw_name)) IN
    IF canonical # None /\ canonical[1] # "" /\ canonical[1] \in DOMAIN db.vendors
    THEN Some(db.vendors[canonical[1]].id)
    ELSE None

(***************************************************************************)
(* The program state                                                       *)
(***************************************************************************)

VARIABLES
    vendor_file,   \* data/vendors.json: None when absent, else Some(db)
    argv,          \* the command line of the running invocation
    pc,            \* where the invocation is: a step name, or how it ended
    loc,           \* the local variables of the running command
    requests,      \* the API requests sent so far, in order
    out,           \* the lines printed so far, in order
    next_id,       \* the remote service: the ID its next created entity gets
    remote_vendors, \* the remote service: its vendors, as GET /vendors lists them
    session,       \* the invocations that ran before this one, oldest first
    peer           \* an invocation of create-vendor running at the same time, if any

vars == <<vendor_file, argv, pc, loc, requests, out, next_id, remote_vendors, session, peer>>

\* What a step of the running command never touches: the record of earlier
\* invocations and the other process.
elsewhere == <<session, peer>>

\* How an invocation ends: a normal return, sys.exit(1), an uncaught exception.
Ended == {"done", "exit1", "traceback"}

Stdout(fmt, data) == [stream |-> "stdout", fmt |-> fmt, data |-> data]
Stderr(fmt, data) == [stream |-> "stderr", fmt |-> fmt, data |-> data]

RECURSIVE SumFloats(_)
\* sum(...) over floats: 0 + x1 + x2 + ..., left to right
SumFloats(xs) == IF xs = <<>> THEN FloatZero
                 ELSE float_add(SumFloats(SubSeq(xs, 1, Len(xs) - 1)), xs[Len(xs)])

(***************************************************************************)
(* The remote service, through api_request                                 *)
(***************************************************************************)

\* The ID the remote service gives the first entity it creates.
FirstRemoteId == 100

\* What urlopen can do with a request that creates an entity: answer with the
\* new entity's ID, answer with an HTTP error status, or fail to connect.
CreateReplies ==
    {[ok |-> TRUE, id |-> next_id, error |-> ""]}
    \cup {[ok |-> FALSE, id |-> 0, error |-> e] : e \in {"HTTPError", "URLError"}}

Request(method, path, body, r) ==
    [method |-> method, path |-> path, body |-> body,
     reply |-> IF r.ok THEN Some(r.id) ELSE None]

\* The line api_request prints to stderr before sys.exit(1).
ApiErrorLine(r) ==
    IF r.error = "HTTPError" THEN Stderr("API Error {code}: {message}", <<>>)
    ELSE Stderr("Connection error: {reason}", <<>>)

\* api_request failing: the request was sent, the error line printed, exit 1.
api_request_fails(method, path, body, r) ==
    /\ requests' = Append(requests, Request(method, path, body, r))
    /\ out' = Append(out, ApiErrorLine(r))
    /\ pc' = "exit1"
    /\ UNCHANGED <<vendor_file, argv, loc, next_id, remote_vendors>>

\* Python truth of an optional string: None and "" are false.
Truthy(opt) == opt # None /\ opt[1] # ""

(***************************************************************************)
(* pay-bill: bill, payment and payment application in one run              *)
(***************************************************************************)

\* li.get("debit", "0")
DebitOf(li) == IF "debit" \in DOMAIN li THEN li.debit ELSE "0"

\* The payment dated as the bill whatever --payment-date says.
payment_date_is_bill_date == argv.date

\* payment_date = args.payment_date or args.date
payment_date == IF Truthy(argv.payment_date) THEN argv.payment_date[1] ELSE argv.date

\* if args.dry_run: print the three intended steps and return.
pay_bill_dry_run_missing_return(lines) == out' = out \o lines /\ pc' = "pb_bill"

pay_bill_dry_run(lines) == out' = out \o lines /\ pc' = "done"

\* cmd_pay_bill up to its first request: parse --lines, compute the total and
\* the bill, and in dry-run mode print the three intended steps and return.
PayBillPrepare ==
    /\ pc = "start"
    /\ UNCHANGED elsewhere
    /\ argv.cmd = "pay-bill"
    /\ UNCHANGED <<vendor_file, argv, requests, next_id, remote_vendors>>
    /\ IF ~argv.lines.json_ok
       THEN /\ out' = Append(out, Stderr("Error parsing --lines JSON: {e}", <<>>))
            /\ pc' = "exit1"
            /\ UNCHANGED loc
       ELSE
       LET expense_lines == argv.lines.items
           floats == [i \in 1..Len(expense_lines) |-> py_float(DebitOf(expense_lines[i]))]
           vendor == IF Truthy(argv.vendor) THEN py_int(argv.vendor[1]) ELSE [raised |-> FALSE, v |-> 0]
           cash   == IF Truthy(argv.cash_account) THEN py_int(argv.cash_account[1])
                     ELSE [raised |-> FALSE, v |-> ACCT.checking]
       IN
       IF (\E i \in 1..Len(floats) : floats[i].raised) \/ vendor.raised \/ cash.raised
       THEN /\ pc' = "traceback"
            /\ UNCHANGED <<loc, out>>
       ELSE
       LET total == format_2f(SumFloats(floats))
           vendor_id == IF Truthy(argv.vendor) THEN Some(vendor.v) ELSE None
           bill_lines == expense_lines \o
               <<[accountId |-> ACCT.accounts_payable, debit |-> "0.00", credit |-> total,
                  description |-> "Accounts payable", functionalClass |-> "none"]>>
           bill_body ==
               [transaction |->
                   [transactionType |-> "bill", date |-> argv.date, description |-> argv.desc,
                    isPosted |-> TRUE,
                    vendorId |-> IF vendor_id # None /\ vendor_id[1] # 0 THEN vendor_id ELSE None,
                    reference |-> IF Truthy(argv.ref) THEN argv.ref ELSE None],
                lineItems |-> bill_lines]
       IN
       /\ loc' = [total |-> total, vendor_id |-> vendor_id, cash_acct |-> cash.v,
                  bill_body |-> bill_body, payment_date |-> payment_date,
                  bill_id |-> None, pmt_id |-> None]
       /\ IF argv.dry_run
          THEN pay_bill_dry_run(
                 << Stdout("[DRY RUN] Step 1 - Bill: {bill_body}", bill_body),
                    Stdout("Step 2 - Payment ({payment_date}): DR AP ${total}, CR acct:{cash_acct} ${total}",
                           [payment_date |-> payment_date, total |-> total, cash_acct |-> cash.v]),
                    Stdout("Step 3 - Payment application: ${total}", [total |-> total]) >>)
          ELSE /\ pc' = "pb_bill"
               /\ UNCHANGED out

\* Step 1: POST /transactions with the bill.
PayBillCreateBill ==
    /\ pc = "pb_bill"
    /\ UNCHANGED elsewhere
    /\ \E r \in CreateReplies :
         IF r.ok
         THEN /\ requests' = Append(requests, Request("POST", "/transactions", loc.bill_body, r))
              /\ next_id' = next_id + 1
              /\ loc' = [loc EXCEPT !.bill_id = Some(r.id)]
              /\ out' = Append(out, Stdout("Step 1: Created bill ID {bill_id}", <<r.id>>))
              /\ pc' = "pb_payment"
              /\ UNCHANGED <<vendor_file, argv, remote_vendors>>
         ELSE api_request_fails("POST", "/transactions", loc.bill_body, r)

\* The payment: DR accounts payable, CR the cash account, for the total.
payment_body ==
    [transaction |->
        [transactionType |-> "payment", date |-> loc.payment_date,
         description |-> "Payment - " \o argv.desc, isPosted |-> TRUE,
         vendorId |-> IF loc.vendor_id # None /\ loc.vendor_id[1] # 0 THEN loc.vendor_id ELSE None,
         reference |-> None],
     lineItems |->
        << [accountId |-> ACCT.accounts_payable, debit |-> loc.total, credit |-> "0.00",
            description |-> "Clear accounts payable", functionalClass |-> "none"],
           [accountId |-> loc.cash_acct, debit |-> "0.00", credit |-> loc.total,
            description |-> "Payment from cash account", functionalClass |-> "none"] >>]

\* Step 2 with a failure that does not stop the run.
PayBillCreatePayment_goes_on ==
    /\ pc = "pb_payment"
    /\ UNCHANGED elsewhere
    /\ \E r \in CreateReplies :
         /\ requests' = Append(requests, Request("POST", "/transactions", payment_body, r))
         /\ next_id' = IF r.ok THEN next_id + 1 ELSE next_id
         /\ loc' = [loc EXCEPT !.pmt_id = IF r.ok THEN Some(r.id) ELSE None]
         /\ out' = Append(out, IF r.ok THEN Stdout("Step 2: Created payment ID {pmt_id}", <<r.id>>)
                                ELSE ApiErrorLine(r))
         /\ pc' = "pb_apply"
         /\ UNCHANGED <<vendor_file, argv, remote_vendors>>

\* Step 2: POST /transactions with the payment.
PayBillCreatePayment ==
    /\ pc = "pb_payment"
    /\ UNCHANGED elsewhere
    /\ \E r \in CreateReplies :
         IF r.ok
         THEN /\ requests' = Append(requests, Request("POST", "/transactions", payment_body, r))
              /\ next_id' = next_id + 1
              /\ loc' = [loc EXCEPT !.pmt_id = Some(r.id)]
              /\ out' = Append(out, Stdout("Step 2: Created payment ID {pmt_id}", <<r.id>>))
              /\ pc' = "pb_apply"
              /\ UNCHANGED <<vendor_file, argv, remote_vendors>>
         ELSE api_request_fails("POST", "/transactions", payment_body, r)

\* The application with the two transaction IDs in each other's place.
pa_body_ids_swapped ==
    [paymentTransactionId |-> loc.bill_id, appliedToTransactionId |-> loc.pmt_id,
     amount |-> loc.total, appliedDate |-> loc.payment_date]

pa_body ==
    [paymentTransactionId |-> loc.pmt_id, appliedToTransactionId |-> loc.bill_id,
     amount |-> loc.total, appliedDate |-> loc.payment_date]

\* Step 3: POST /payment-applications linking the payment to the bill.
PayBillApplyPayment ==
    /\ pc = "pb_apply"
    /\ UNCHANGED elsewhere
    /\ \E r \in CreateReplies :
         IF r.ok
         THEN /\ requests' = Append(requests, Request("POST", "/payment-applications", pa_body, r))
              /\ next_id' = next_id + 1
              /\ out' = out \o
                   << Stdout("Step 3: Created payment application ID {id}", <<r.id>>),
                      Stdout("Done: bill={bill_id}, payment={pmt_id}, application={id}",
                             <<loc.bill_id[1], loc.pmt_id[1], r.id>>) >>
              /\ pc' = "done"
              /\ UNCHANGED <<vendor_file, argv, loc, remote_vendors>>
         ELSE api_request_fails("POST", "/payment-applications", pa_body, r)

(***************************************************************************)
(* import-report: an expense report as one transaction with N line items   *)
(***************************************************************************)

\* Rows of an expense report: Date, Vendor, Description, Expense Total.
Row(d, v, x, t) == [Date |-> d, Vendor |-> v, Description |-> x, Total |-> t]

SampleRows ==
    { Row("1/5/26", "Claude", "LLM coding", "$30.00"),
      Row("12/25/25", " claude", "llm", "0.10"),
      Row("10/2/26", "Chatgpt", "pobox 3 month", "1,234.56"),
      Row("2/10/26", "Claude", "unknown expense type", "5.00"),
      Row("13-1-26", "Claude", "LLM coding", "5.00"),
      Row("1/x/26", "Claude", "llm", "2.00"),
      Row("3/1/26", "Claude", "LLM coding", "abc"),
      Row("3/1/26", "mitchray TA", "Internet", "0.20"),
      Row("3/1/26", "totally unknown vendor", "Internet", "0.20"),
      Row("", "Claude", "LLM coding", "1.00"),
      Row("1/1/26", "OpenAI", "training", "9007199254740992"),
      Row("1/1/2026", "OpenAI", "Training day", "1"),
      Row("6/30/26", "Claude", "utilities", "0") }

\* parse_money tabulated over the amounts of the sample rows, and float over the
\* debit strings it yields: each conversion is computed once.
parse_money_of == [t \in {strip(r.Total) : r \in SampleRows} |-> parse_money(t)]

float_of_debit ==
    [d \in {parse_money_of[t] : t \in DOMAIN parse_money_of} \ {ValueError} |-> py_float(d)]

RowError(i, fmt, arg) == [row |-> i, fmt |-> fmt, arg |-> arg]

\* cmd_import_report up to the row loop: the rows read from the file (blank
\* rows already dropped), the vendor database loaded and its alias map rebuilt.
ImportReportStart ==
    /\ pc = "start"
    /\ UNCHANGED elsewhere
    /\ argv.cmd = "import-report"
    /\ UNCHANGED <<vendor_file, argv, requests, next_id, remote_vendors>>
    /\ IF argv.rows = <<>>
       THEN /\ out' = Append(out, Stderr("No data rows found.", <<>>))
            /\ pc' = "exit1"
            /\ UNCHANGED loc
       ELSE /\ loc' = [db |-> rebuild_alias_map(load_vendor_db(vendor_file)),
                       debit_lines |-> <<>>, errors |-> <<>>, latest_date |-> "", i |-> 1,
                       body |-> None]
            /\ pc' = "ir_rows"
            /\ UNCHANGED out

\* One pass of the loop over the rows, for row loc.i (1-based).
ImportReportRow ==
    /\ pc = "ir_rows"
    /\ UNCHANGED elsewhere
    /\ loc.i <= Len(argv.rows)
    /\ UNCHANGED <<vendor_file, argv, requests, out, next_id, remote_vendors>>
    /\ LET i          == loc.i
           row        == argv.rows[i]
           date_raw   == strip(row.Date)
           vendor_raw == strip(row.Vendor)
           desc_raw   == strip(row.Description)
           amount_raw == strip(row.Total)
           date_str   == parse_date_mdy(date_raw)
           latest     == IF str_gt(date_str, loc.latest_date) THEN date_str ELSE loc.latest_date
           amount     == parse_money_of[amount_raw]
           mapping    == map_description(desc_raw)
           vendor_id  == lookup_vendor_id(vendor_raw, loc.db)
           alias      == DictGet(loc.db.alias_map, lower(vendor_raw))
           canonical  == IF alias = None THEN vendor_raw ELSE alias[1]
           Skip(e, d) == /\ loc' = [loc EXCEPT !.errors = Append(@, e), !.latest_date = d,
                                               !.i = i + 1]
                         /\ pc' = "ir_rows"
       IN
       IF date_raw = "" \/ desc_raw = "" \/ amount_raw = ""
       THEN Skip(RowError(i, "missing date/description/amount", ""), loc.latest_date)
       ELSE IF date_str = ValueError
       THEN Skip(RowError(i, "{e}", date_raw), loc.latest_date)
       ELSE IF amount = ValueError
       THEN /\ pc' = "traceback"
            /\ loc' = [loc EXCEPT !.latest_date = latest]
       ELSE IF mapping = None
       THEN Skip(RowError(i, "no mapping for description '{desc_raw}'", desc_raw), latest)
       ELSE IF vendor_id = None \/ vendor_id[1] = 0
       THEN Skip(RowError(i, "vendor '{vendor_raw}' not found in DB", vendor_raw), latest)
       ELSE /\ loc' = [loc EXCEPT
                          !.debit_lines = Append(@,
                              [accountId |-> mapping[1], debit |-> amount, credit |-> "0.00",
                               description |-> canonical \o " - " \o desc_raw,
                               functionalClass |-> mapping[3], vendorId |-> vendor_id[1],
                               expenseSubcategoryId |-> mapping[2]]),
                          !.latest_date = latest,
                          !.i = i + 1]
            /\ pc' = "ir_rows"

\* The balancing line: CR reimbursements payable for the float sum of the debits.
credit_line(debit_lines) ==
    [accountId |-> ACCT.reimb_payable, debit |-> "0.00",
     credit |-> format_2f(SumFloats([k \in 1..Len(debit_lines) |->
                                     float_of_debit[debit_lines[k].debit]])),
     description |-> "Reimbursement payable", functionalClass |-> "none"]

\* The request body of the expense transaction.
report_body(debit_lines, latest_date) ==
    [transaction |->
        [transactionType |-> "expense", date |-> latest_date, description |-> argv.desc,
         reimbursementStatus |-> "pending", isPosted |-> TRUE],
     lineItems |-> debit_lines \o <<credit_line(debit_lines)>>]

ErrorLines(errors) ==
    IF errors = <<>> THEN <<>>
    ELSE <<Stderr("Errors ({len(errors)}):", <<Len(errors)>>)>>
         \o [k \in 1..Len(errors) |-> Stderr("  {e}", errors[k])]

\* After the loop: report the errors (and stop, unless in dry-run mode), build
\* the transaction, print it, and in dry-run mode print the payload and return.
ImportReportBuild ==
    /\ pc = "ir_rows"
    /\ UNCHANGED elsewhere
    /\ loc.i > Len(argv.rows)
    /\ UNCHANGED <<vendor_file, argv, requests, next_id, remote_vendors>>
    /\ IF loc.errors # <<>> /\ ~argv.dry_run
       THEN /\ out' = out \o ErrorLines(loc.errors)
                          \o <<Stderr("Fix errors before importing.", <<>>)>>
            /\ pc' = "exit1"
            /\ UNCHANGED loc
       ELSE LET body == report_body(loc.debit_lines, loc.latest_date)
                summary == Stdout("Expense report: {desc} Date: {latest_date} Total: ${total}",
                                  body)
            IN  IF argv.dry_run
                THEN /\ out' = out \o ErrorLines(loc.errors) \o
                          <<summary, Stdout("[DRY RUN] Would post the above transaction. {body}", body)>>
                     /\ loc' = [loc EXCEPT !.body = Some(body)]
                     /\ pc' = "done"
                ELSE /\ out' = out \o <<summary>>
                     /\ loc' = [loc EXCEPT !.body = Some(body)]
                     /\ pc' = "ir_post"

\* POST /transactions with the expense transaction.
ImportReportPost ==
    /\ pc = "ir_post"
    /\ UNCHANGED elsewhere
    /\ \E r \in CreateReplies :
         IF r.ok
         THEN /\ requests' = Append(requests, Request("POST", "/transactions", loc.body[1], r))
              /\ next_id' = next_id + 1
              /\ out' = Append(out, Stdout("Created transaction ID {id}", <<r.id>>))
              /\ pc' = "done"
              /\ UNCHANGED <<vendor_file, argv, loc, remote_vendors>>
         ELSE api_request_fails("POST", "/transactions", loc.body[1], r)

(***************************************************************************)
(* create-vendor, import-vendors, vendor-lookup                            *)
(***************************************************************************)

\* s sorted into t, an already sorted sequence (list.sort on str: by code point)
RECURSIVE insert_sorted(_, _)
insert_sorted(t, s) ==
    IF t = <<>> THEN <<s>>
    ELSE IF str_gt(Head(t), s) THEN <<s>> \o t
    ELSE <<Head(t)>> \o insert_sorted(Tail(t), s)

RECURSIVE sorted(_)
sorted(xs) == IF xs = <<>> THEN <<>> ELSE insert_sorted(sorted(SubSeq(xs, 1, Len(xs) - 1)), xs[Len(xs)])

\* sorted(VENDOR_ALIASES.keys())
canonical_names == sorted([i \in 1..Len(VENDOR_ALIASES) |-> VENDOR_ALIASES[i][1]])

\* cmd_create_vendor: POST /vendors, then record the vendor in the local file.
CreateVendor ==
    /\ pc = "start"
    /\ UNCHANGED elsewhere
    /\ argv.cmd = "create-vendor"
    /\ \E r \in CreateReplies :
         IF r.ok
         THEN /\ requests' = Append(requests, Request("POST", "/vendors", [name |-> argv.name], r))
              /\ next_id' = next_id + 1
              /\ vendor_file' = save_vendor_db(
                     LET db == rebuild_alias_map(load_vendor_db(vendor_file)) IN
                     [db EXCEPT !.vendors = DictSet(@, argv.name, [id |-> r.id, name |-> argv.name])])
              /\ out' = out \o << Stdout("Created vendor ID {vid}: {name}", <<r.id>>),
                                  Stdout("  -> Saved to local vendor DB", <<>>) >>
              /\ pc' = "done"
              /\ remote_vendors' = Append(remote_vendors, [id |-> r.id, name |-> argv.name])
              /\ UNCHANGED <<argv, loc>>
         ELSE api_request_fails("POST", "/vendors", [name |-> argv.name], r)

\* The remote vendors keyed by their names as they are, not lowercased.
existing_of_case_sensitive(data) ==
    [k \in {data[i].name : i \in 1..Len(data)} |->
        data[CHOOSE i \in 1..Len(data) :
                 /\ data[i].name = k
                 /\ \A j \in (i + 1)..Len(data) : data[j].name # k]]

RECURSIVE lower_names(_)
\* v["name"].lower() of each v of data, in order
lower_names(data) ==
    IF data = <<>> THEN <<>>
    ELSE Append(lower_names(SubSeq(data, 1, Len(data) - 1)), lower(data[Len(data)].name))

\* {v["name"].lower(): v for v in data}: a later vendor of the same key wins.
existing_of(data) ==
    LET key == lower_names(data) IN
    [k \in {key[i] : i \in 1..Len(data)} |->
        data[CHOOSE i \in 1..Len(data) :
                 /\ key[i] = k
                 /\ \A j \in (i + 1)..Len(data) : key[j] # k]]

\* What urlopen can do with GET /vendors: answer with the vendors, or fail.
ListReplies ==
    {[ok |-> TRUE, id |-> 0, error |-> ""]}
    \cup {[ok |-> FALSE, id |-> 0, error |-> e] : e \in {"HTTPError", "URLError"}}

\* The "data" of a successful GET /vendors: the vendors the service holds, or
\* those it held before it created any (the code takes the answer as it comes;
\* nothing makes the listing show the vendors created a moment ago).
Listings ==
    {remote_vendors, SelectSeq(remote_vendors, LAMBDA v : v.id < FirstRemoteId)}

\* cmd_import_vendors up to its loop: GET /vendors, then load the local database.
ImportVendorsFetch ==
    /\ pc = "start"
    /\ UNCHANGED elsewhere
    /\ argv.cmd = "import-vendors"
    /\ \E r \in ListReplies, data \in Listings :
         IF r.ok
         THEN /\ requests' = Append(requests,
                     [method |-> "GET", path |-> "/vendors", body |-> None,
                      reply |-> Some(data)])
              /\ loc' = [existing |-> existing_of(data),
                         db |-> rebuild_alias_map(load_vendor_db(vendor_file)),
                         k |-> 1, created |-> 0, skipped |-> 0]
              /\ pc' = "iv_names"
              /\ UNCHANGED <<vendor_file, argv, out, next_id, remote_vendors>>
         ELSE api_request_fails("GET", "/vendors", None, r)

\* The loop body's last part not recording the created vendor.
import_vendors_create_unrecorded(name) ==
    \E r \in CreateReplies :
      IF r.ok
      THEN /\ requests' = Append(requests, Request("POST", "/vendors", [name |-> name], r))
           /\ next_id' = next_id + 1
           /\ loc' = [loc EXCEPT !.created = @ + 1, !.k = @ + 1]
           /\ out' = Append(out, Stdout("  CREATED ID {vid}: {name}", name))
           /\ remote_vendors' = Append(remote_vendors, [id |-> r.id, name |-> name])
           /\ UNCHANGED <<vendor_file, argv, pc>>
      ELSE api_request_fails("POST", "/vendors", [name |-> name], r)

\* The loop body's last part saving the database after each creation.
import_vendors_create_saving(name) ==
    \E r \in CreateReplies :
      IF r.ok
      THEN /\ requests' = Append(requests, Request("POST", "/vendors", [name |-> name], r))
           /\ next_id' = next_id + 1
           /\ loc' = [loc EXCEPT
                         !.db.vendors = DictSet(@, name, [id |-> r.id, name |-> name]),
                         !.created = @ + 1, !.k = @ + 1]
           /\ vendor_file' = save_vendor_db(loc'.db)
           /\ out' = Append(out, Stdout("  CREATED ID {vid}: {name}", name))
           /\ remote_vendors' = Append(remote_vendors, [id |-> r.id, name |-> name])
           /\ UNCHANGED <<argv, pc>>
      ELSE api_request_fails("POST", "/vendors", [name |-> name], r)

\* The loop body's last part: POST /vendors for name and record the answer.
import_vendors_create(name) ==
    \E r \in CreateReplies :
      IF r.ok
      THEN /\ requests' = Append(requests, Request("POST", "/vendors", [name |-> name], r))
           /\ next_id' = next_id + 1
           /\ loc' = [loc EXCEPT
                         !.db.vendors = DictSet(@, name, [id |-> r.id, name |-> name]),
                         !.created = @ + 1, !.k = @ + 1]
           /\ out' = Append(out, Stdout("  CREATED ID {vid}: {name}", name))
           /\ remote_vendors' = Append(remote_vendors, [id |-> r.id, name |-> name])
           /\ UNCHANGED <<vendor_file, argv, pc>>
      ELSE api_request_fails("POST", "/vendors", [name |-> name], r)

\* The dry-run branch creating the vendor all the same.
import_vendors_would_create_posts(name) == import_vendors_create(name)

\* if args.dry_run: print what would be created and continue with the next name.
import_vendors_would_create(name) ==
    /\ loc' = [loc EXCEPT !.k = @ + 1]
    /\ out' = Append(out, Stdout("  WOULD CREATE: {name}", name))
    /\ UNCHANGED <<vendor_file, argv, pc, requests, next_id, remote_vendors>>

\* One pass of the loop over the sorted canonical names, for name number loc.k.
ImportVendorsName ==
    /\ pc = "iv_names"
    /\ UNCHANGED elsewhere
    /\ loc.k <= Len(canonical_names)
    /\ LET name == canonical_names[loc.k] IN
       IF lower(name) \in DOMAIN loc.existing
       THEN /\ loc' = [loc EXCEPT
                          !.db.vendors = DictSet(@, name, [id |-> loc.existing[lower(name)].id,
                                                           name |-> name]),
                          !.skipped = @ + 1, !.k = @ + 1]
            /\ out' = Append(out, Stdout("  SKIP (exists on server) ID {vid}: {name}", name))
            /\ UNCHANGED <<vendor_file, argv, pc, requests, next_id, remote_vendors>>
       ELSE IF name \in DOMAIN loc.db.vendors
       THEN /\ loc' = [loc EXCEPT !.skipped = @ + 1, !.k = @ + 1]
            /\ out' = Append(out, Stdout("  SKIP (in local DB) ID {id}: {name}", name))
            /\ UNCHANGED <<vendor_file, argv, pc, requests, next_id, remote_vendors>>
       ELSE IF argv.dry_run
       THEN import_vendors_would_create(name)
       ELSE import_vendors_create(name)

\* The end of the loop leaving the file alone in dry-run mode.
ImportVendorsSave_not_in_dry_run ==
    /\ pc = "iv_names"
    /\ UNCHANGED elsewhere
    /\ loc.k > Len(canonical_names)
    /\ vendor_file' = IF argv.dry_run THEN vendor_file ELSE save_vendor_db(loc.db)
    /\ out' = Append(out, Stdout("Done: {created} created, {skipped} skipped.",
                                 <<loc.created, loc.skipped>>))
    /\ pc' = "done"
    /\ UNCHANGED <<argv, loc, requests, next_id, remote_vendors>>

\* After the loop: save the database and print the totals.
ImportVendorsSave ==
    /\ pc = "iv_names"
    /\ UNCHANGED elsewhere
    /\ loc.k > Len(canonical_names)
    /\ vendor_file' = save_vendor_db(loc.db)
    /\ out' = Append(out, Stdout("Done: {created} created, {skipped} skipped.",
                                 <<loc.created, loc.skipped>>))
    /\ pc' = "done"
    /\ UNCHANGED <<argv, loc, requests, next_id, remote_vendors>>

\* A second invocation, of create-vendor, running at the same time as the first
\* in a process of its own, on the same vendor file and the same service. Each
\* of its accesses to the service and to the file is a step: nothing in the code
\* locks the file between load_vendor_db and save_vendor_db.
PeerInvocations ==
    {<<[pc |-> "start", name |-> n, vid |-> None, db |-> None]>> : n \in {"Acme Tools", "OpenAI"}}

\* cmd_create_vendor, the POST /vendors
PeerCreate ==
    /\ peer # None
    /\ peer[1].pc = "start"
    /\ \E r \in CreateReplies :
         IF r.ok
         THEN /\ peer' = <<[peer[1] EXCEPT !.pc = "created", !.vid = Some(r.id)]>>
              /\ next_id' = next_id + 1
              /\ remote_vendors' = Append(remote_vendors, [id |-> r.id, name |-> peer[1].name])
         ELSE /\ peer' = <<[peer[1] EXCEPT !.pc = "exit1"]>>
              /\ UNCHANGED <<next_id, remote_vendors>>
    /\ UNCHANGED <<vendor_file, argv, pc, loc, requests, out, session>>

\* cmd_create_vendor, load_vendor_db to db["vendors"][args.name] = ...
PeerLoad ==
    /\ peer # None
    /\ peer[1].pc = "created"
    /\ peer' = <<[peer[1] EXCEPT
                    !.pc = "loaded",
                    !.db = LET db == rebuild_alias_map(load_vendor_db(vendor_file)) IN
                           Some([db EXCEPT !.vendors =
                                    DictSet(@, peer[1].name,
                                            [id |-> peer[1].vid[1], name |-> peer[1].name])])]>>
    /\ UNCHANGED <<vendor_file, argv, pc, loc, requests, out, next_id, remote_vendors, session>>

\* The save writing its records over those the file has by now, not the file.
PeerSave_merging ==
    /\ peer # None
    /\ peer[1].pc = "loaded"
    /\ vendor_file' = save_vendor_db(
           [peer[1].db[1] EXCEPT !.vendors =
               [x \in DOMAIN load_vendor_db(vendor_file).vendors \cup DOMAIN @ |->
                   IF x \in DOMAIN @ THEN @[x] ELSE load_vendor_db(vendor_file).vendors[x]]])
    /\ peer' = <<[peer[1] EXCEPT !.pc = "done"]>>
    /\ UNCHANGED <<argv, pc, loc, requests, out, next_id, remote_vendors, session>>

\* cmd_create_vendor, save_vendor_db(db)
PeerSave ==
    /\ peer # None
    /\ peer[1].pc = "loaded"
    /\ vendor_file' = save_vendor_db(peer[1].db[1])
    /\ peer' = <<[peer[1] EXCEPT !.pc = "done"]>>
    /\ UNCHANGED <<argv, pc, loc, requests, out, next_id, remote_vendors, session>>

\* cmd_vendor_lookup: raw name to canonical name to ID, from the local file.
VendorLookup ==
    /\ pc = "start"
    /\ UNCHANGED elsewhere
    /\ argv.cmd = "vendor-lookup"
    /\ UNCHANGED <<vendor_file, argv, loc, requests, next_id, remote_vendors>>
    /\ LET db == rebuild_alias_map(load_vendor_db(vendor_file))
           canonical == DictGet(db.alias_map, lower(argv.name))
       IN  IF canonical = None \/ canonical[1] = ""
           THEN /\ out' = Append(out, Stdout("No alias mapping for: {raw}", argv.name))
                /\ pc' = "exit1"
           ELSE IF canonical[1] \notin DOMAIN db.vendors
           THEN /\ out' = Append(out,
                       Stdout("Canonical vendor '{canonical}' not yet created (no ID in local DB)",
                              canonical[1]))
                /\ pc' = "exit1"
           ELSE /\ out' = Append(out, Stdout("Raw: {raw} -> Canonical: {canonical} -> ID: {id}",
                                             canonical[1]))
                /\ pc' = "done"

\* map_description applied to argv.desc over argv.table.
Classify ==
    /\ pc = "start"
    /\ UNCHANGED elsewhere
    /\ argv.cmd = "map_description"
    /\ loc' = [result |-> map_description_in(argv.table, argv.desc)]
    /\ pc' = "done"
    /\ UNCHANGED <<vendor_file, argv, requests, out, next_id, remote_vendors>>

(***************************************************************************)
(* Inputs and specifications: one invocation from each initial state       *)
(***************************************************************************)

\* The local vendor file before the invocation: absent, or as an earlier
\* import-vendors left it (the alias map is saved with the vendors).
StoredVendors ==
    ("Anthropic (Claude)" :> [id |-> 42, name |-> "Anthropic (Claude)"])
    @@ ("OpenAI" :> [id |-> 7, name |-> "OpenAI"])

VendorFiles == {None, Some([vendors |-> StoredVendors, alias_map |-> AliasIndex])}

InitCommon ==
    /\ pc = "start"
    /\ loc = <<>>
    /\ requests = <<>>
    /\ out = <<>>
    /\ next_id = FirstRemoteId
    /\ session = <<>>
    /\ peer = None

\* --lines of pay-bill: not JSON, or a list of line items.
PayBillLines ==
    { [json_ok |-> FALSE, items |-> <<>>],
      [json_ok |-> TRUE, items |-> <<[accountId |-> 48, debit |-> "30.00", credit |-> "0.00"]>>],
      [json_ok |-> TRUE, items |-> <<[accountId |-> 48, debit |-> "0.10", credit |-> "0.00"],
                                     [accountId |-> 47, debit |-> "0.20", credit |-> "0.00"]>>],
      [json_ok |-> TRUE, items |-> <<[accountId |-> 48, credit |-> "0.00"]>>],
      [json_ok |-> TRUE, items |-> <<[accountId |-> 48, debit |-> "abc", credit |-> "0.00"]>>],
      [json_ok |-> TRUE, items |-> <<[accountId |-> 48, debit |-> "0.125", credit |-> "0.00"]>>],
      [json_ok |-> TRUE, items |-> <<[accountId |-> 48, debit |-> "9007199254740992.00", credit |-> "0.00"],
                                     [accountId |-> 47, debit |-> "1.00", credit |-> "0.00"]>>] }

PayBillInvocations ==
    [cmd : {"pay-bill"}, lines : PayBillLines, date : {"2026-01-05"}, desc : {"Office chairs"},
     vendor : {None, Some("42")}, cash_account : {None, Some("3")},
     payment_date : {None, Some("2026-01-10")}, ref : {None, Some("INV-1")},
     dry_run : BOOLEAN]

InitPayBill ==
    /\ InitCommon
    /\ vendor_file \in VendorFiles
    /\ remote_vendors = <<>>
    /\ argv \in PayBillInvocations

NextPayBill ==
    \/ PayBillPrepare
    \/ PayBillCreateBill
    \/ PayBillCreatePayment
    \/ PayBillApplyPayment

SpecPayBill == InitPayBill /\ [][NextPayBill]_vars

MaxRows == 2

RECURSIVE SeqsUpTo(_, _)
\* The sequences over S of length at most n.
SeqsUpTo(S, n) ==
    IF n = 0 THEN {<<>>}
    ELSE LET shorter == SeqsUpTo(S, n - 1) IN
         shorter \cup {Append(q, x) : q \in {t \in shorter : Len(t) = n - 1}, x \in S}

ImportReportInvocations ==
    [cmd : {"import-report"}, rows : SeqsUpTo(SampleRows, MaxRows), desc : {"Expense Report Jan 2026"},
     dry_run : BOOLEAN]

InitReport ==
    /\ InitCommon
    /\ vendor_file \in VendorFiles
    /\ remote_vendors = <<>>
    /\ argv \in ImportReportInvocations

NextReport ==
    \/ ImportReportStart
    \/ ImportReportRow
    \/ ImportReportBuild
    \/ ImportReportPost

SpecReport == InitReport /\ [][NextReport]_vars

\* The vendors the remote service holds before the invocation.
RemoteVendorLists ==
    { <<>>,
      <<[id |-> 7, name |-> "OpenAI"]>>,
      <<[id |-> 42, name |-> "anthropic (claude)"], [id |-> 9, name |-> "Unrelated Co"]>>,
      <<[id |-> 8, name |-> "OPENAI"]>> }

ImportVendorsInvocations == [cmd : {"import-vendors"}, dry_run : BOOLEAN]

\* The vendor file import-vendors finds: also one holding a vendor that
\* create-vendor recorded under a name that is no canonical name.
ImportVendorFiles ==
    VendorFiles \cup
    {Some([vendors |-> StoredVendors @@ ("Acme Tools" :> [id |-> 5, name |-> "Acme Tools"]),
           alias_map |-> AliasIndex])}

InitImportVendors ==
    /\ InitCommon
    /\ vendor_file \in ImportVendorFiles
    /\ remote_vendors \in RemoteVendorLists
    /\ argv \in ImportVendorsInvocations

NextImportVendors ==
    \/ ImportVendorsFetch
    \/ ImportVendorsName
    \/ ImportVendorsSave

SpecImportVendors == InitImportVendors /\ [][NextImportVendors]_vars

\* Rule tables for map_description: the program's, the program's with one rule
\* moved to the front, and every order of a short table in which a keyphrase
\* is a prefix of another rule's and the two rules differ.
MoveToFront(table, i) ==
    <<table[i]>> \o SubSeq(table, 1, i - 1) \o SubSeq(table, i + 1, Len(table))

ShortRules == <<
    <<"llm",        <<ACCT.misc_expense, None, "management_general">> >>,
    <<"llm coding", <<ACCT.software_tech, Some(11), "program">> >>,
    <<"internet",   <<ACCT.telephone_internet, Some(14), "management_general">> >>,
    <<"pobox",      <<ACCT.postage_shipping, Some(12), "management_general">> >> >>

Orders(table) ==
    LET n == Len(table) IN
    { [i \in 1..n |-> table[p[i]]] :
        p \in {q \in [1..n -> 1..n] : \A a, b \in 1..n : q[a] = q[b] => a = b} }

RuleTables ==
    {DESCRIPTION_MAP} \cup {MoveToFront(DESCRIPTION_MAP, i) : i \in 1..Len(DESCRIPTION_MAP)}
    \cup Orders(ShortRules)

SampleDescriptions ==
    {"LLM coding", "llm coding", " llm ", "LLM stuff", "llm coding assistant", "pobox 3 month",
     "Internet", "internet bill", "unknown expense type", "", "ll", "Training"}

ClassifyInvocations == [cmd : {"map_description"}, table : RuleTables, desc : SampleDescriptions]

InitClassify ==
    /\ InitCommon
    /\ vendor_file = None
    /\ remote_vendors = <<>>
    /\ argv \in ClassifyInvocations

NextClassify == Classify

SpecClassify == InitClassify /\ [][NextClassify]_vars

\* Every command with a dry-run mode.
InitDryRunCommands ==
    /\ InitCommon
    /\ vendor_file \in VendorFiles
    /\ \/ argv \in PayBillInvocations /\ remote_vendors = <<>>
       \/ argv \in ImportReportInvocations /\ remote_vendors = <<>>
       \/ argv \in ImportVendorsInvocations /\ remote_vendors \in RemoteVendorLists

NextDryRunCommands ==
    \/ PayBillPrepare
    \/ PayBillCreateBill
    \/ PayBillCreatePayment
    \/ PayBillApplyPayment
    \/ ImportReportStart
    \/ ImportReportRow
    \/ ImportReportBuild
    \/ ImportReportPost
    \/ ImportVendorsFetch
    \/ ImportVendorsName
    \/ ImportVendorsSave

SpecDryRunCommands == InitDryRunCommands /\ [][NextDryRunCommands]_vars

(***************************************************************************)
(* A session: commands run one after the other on the same vendor file     *)
(* and against the same remote service                                     *)
(***************************************************************************)

MaxInvocations == 2

\* What is kept of an invocation that is over.
Ran == [argv |-> argv, ended |-> pc, requests |-> requests, vendor_file |-> vendor_file]

CreateVendorInvocations == [cmd : {"create-vendor"}, name : {"Acme Tools"}]

VendorLookupInvocations == [cmd : {"vendor-lookup"}, name : {"Chatgpt"}]

SessionPayBills ==
    [cmd : {"pay-bill"},
     lines : {[json_ok |-> TRUE,
               items |-> <<[accountId |-> 48, debit |-> "30.00", credit |-> "0.00"]>>]},
     date : {"2026-01-05"}, desc : {"Office chairs"}, vendor : {Some("42")},
     cash_account : {None}, payment_date : {None}, ref : {None}, dry_run : {FALSE}]

SessionReports ==
    [cmd : {"import-report"}, rows : {<<Row("10/2/26", "Chatgpt", "pobox 3 month", "1,234.56")>>},
     desc : {"Expense Report Jan 2026"}, dry_run : {FALSE}]

\* main(): the command line is parsed and the command dispatched.  In a session
\* the operator runs the next command once the one before is over.
Invoke ==
    /\ pc \in Ended
    /\ Len(session) + 1 < MaxInvocations
    /\ session' = Append(session, Ran)
    /\ \/ argv' \in ImportVendorsInvocations
       \/ argv' \in CreateVendorInvocations
       \/ argv' \in VendorLookupInvocations
       \/ argv' \in SessionPayBills
       \/ argv' \in SessionReports
    /\ pc' = "start"
    /\ loc' = <<>>
    /\ requests' = <<>>
    /\ out' = <<>>
    /\ UNCHANGED <<vendor_file, next_id, remote_vendors, peer>>

InitSession ==
    /\ InitCommon
    /\ vendor_file = None
    /\ remote_vendors = <<[id |-> 8, name |-> "OPENAI"]>>
    /\ \/ argv \in ImportVendorsInvocations
       \/ argv \in CreateVendorInvocations

NextSession ==
    \/ Invoke
    \/ CreateVendor
    \/ ImportVendorsFetch
    \/ ImportVendorsName
    \/ ImportVendorsSave
    \/ VendorLookup
    \/ PayBillPrepare
    \/ PayBillCreateBill
    \/ PayBillCreatePayment
    \/ PayBillApplyPayment
    \/ ImportReportStart
    \/ ImportReportRow
    \/ ImportReportBuild
    \/ ImportReportPost

SpecSession == InitSession /\ [][NextSession]_vars

(***************************************************************************)
(* Properties of pay-bill                                                  *)
(***************************************************************************)

\* Which of the three mutations a request is.
StepOf(req) ==
    IF req.method = "POST" /\ req.path = "/payment-applications" THEN "application"
    ELSE IF req.method = "POST" /\ req.path = "/transactions"
    THEN req.body.transaction.transactionType
    ELSE "other"

PayBillSteps == <<"bill", "payment", "application">>

\* C1: in a pay-bill that is no dry run the requests sent are, in this order,
\* the bill, the payment and the payment application; a step is sent only
\* after every step before it was answered with success, so a failed bill is
\* followed by no payment and no application, a failed payment by no
\* application, and the run stops at the first failure.
C1_StepsInOrderStopAtFailure ==
    (argv.cmd = "pay-bill" /\ ~argv.dry_run) =>
        /\ Len(requests) <= 3
        /\ \A k \in 1..Len(requests) : StepOf(requests[k]) = PayBillSteps[k]
        /\ \A k \in 1..(Len(requests) - 1) : requests[k].reply # None
        /\ (requests # <<>> /\ requests[Len(requests)].reply = None) => pc = "exit1"

\* The bill was created, the payment failed, the run is over and no
\* application was sent.
C1_PaymentFailedAfterBill ==
    /\ argv.cmd = "pay-bill" /\ ~argv.dry_run
    /\ pc = "exit1"
    /\ Len(requests) = 2
    /\ requests[1].reply # None
    /\ requests[2].reply = None

\* C2: when the payment or the application fails after earlier steps
\* succeeded, the failure reported on stderr names the ID of every entity the
\* run had already created.
C2_FailureNamesCreatedIds ==
    ( /\ argv.cmd = "pay-bill" /\ ~argv.dry_run
      /\ pc = "exit1"
      /\ requests # <<>>
      /\ requests[Len(requests)].reply = None ) =>
        \A k \in 1..(Len(requests) - 1) :
            \E j \in 1..Len(out) :
                /\ out[j].stream = "stderr"
                /\ \E n \in 1..Len(out[j].data) : out[j].data[n] = requests[k].reply[1]

\* A numeral with at most two decimals, in cents.
Cents(s) ==
    LET parts == split(s, ".")
        frac  == IF Len(parts) > 1 THEN parts[2] ELSE ""
    IN  BNorm(BOfDigits(parts[1] \o frac \o SubSeq("00", 1, 2 - Len(frac))))

RECURSIVE SumCents(_)
\* The exact sum, in cents, of a sequence of numerals.
SumCents(xs) == IF xs = <<>> THEN <<>> ELSE BAdd(Cents(Head(xs)), SumCents(Tail(xs)))

\* C3: a dry-run pay-bill sends no request and ends after its first step; when
\* it ends normally it has printed exactly the intended bill (the supplied
\* lines and the accounts-payable credit of the computed total), the payment
\* and the payment application, each with that total; the local vendor file
\* is left as it was.
C3_PayBillDryRun ==
    /\ []( (argv.cmd = "pay-bill" /\ argv.dry_run) =>
              /\ requests = <<>>
              /\ pc \in {"start"} \cup Ended
              /\ pc = "done" =>
                   LET items == argv.lines.items
                       total == out[1].data.lineItems[Len(items) + 1].credit
                   IN  /\ Len(out) = 3
                       /\ out[1].fmt = "[DRY RUN] Step 1 - Bill: {bill_body}"
                       /\ out[1].data.transaction.transactionType = "bill"
                       /\ Len(out[1].data.lineItems) = Len(items) + 1
                       /\ SubSeq(out[1].data.lineItems, 1, Len(items)) = items
                       /\ out[1].data.lineItems[Len(items) + 1].accountId = ACCT.accounts_payable
                       /\ out[2].fmt = "Step 2 - Payment ({payment_date}): DR AP ${total}, CR acct:{cash_acct} ${total}"
                       /\ out[2].data.total = total
                       /\ out[3].fmt = "Step 3 - Payment application: ${total}"
                       /\ out[3].data.total = total )
    /\ [][(argv.cmd = "pay-bill" /\ argv.dry_run) => vendor_file' = vendor_file]_vars

\* A dry-run pay-bill over the debits 0.10 and 0.20, ended normally beside a
\* vendor file, having printed the total 0.30 in all three steps.
C3_DryRunPrinted ==
    /\ argv.cmd = "pay-bill" /\ argv.dry_run
    /\ pc = "done"
    /\ Len(argv.lines.items) = 2
    /\ argv.lines.items[1].debit = "0.10"
    /\ Len(out) = 3
    /\ out[1].data.lineItems[3].credit = "0.30"
    /\ out[2].data.total = "0.30"
    /\ out[3].data.total = "0.30"
    /\ vendor_file # None
    /\ requests = <<>>

\* C13: when a pay-bill has completed its three steps, the payment
\* application it sent names as payment the ID the service answered to this
\* run's payment request and as bill the ID it answered to this run's bill
\* request, and neither of the two is missing.
C13_ApplicationLinksReturnedIds ==
    (argv.cmd = "pay-bill" /\ pc = "done" /\ ~argv.dry_run) =>
        /\ Len(requests) = 3
        /\ requests[1].reply # None
        /\ requests[2].reply # None
        /\ requests[3].body.appliedToTransactionId = requests[1].reply
        /\ requests[3].body.paymentTransactionId = requests[2].reply

\* A completed pay-bill whose bill and payment got different IDs.
C13_ThreeStepsDone ==
    /\ argv.cmd = "pay-bill" /\ pc = "done" /\ ~argv.dry_run
    /\ Len(requests) = 3
    /\ requests[3].reply # None
    /\ requests[1].reply # requests[2].reply
    /\ requests[3].body.appliedToTransactionId = requests[1].reply

\* A debit or credit field of a line item; an absent field counts as 0.
AmountOf(li, field) == IF field \in DOMAIN li THEN li[field] ELSE "0"

\* A numeral with at most three decimals, in thousandths.
Mills(s) ==
    LET parts == split(s, ".")
        frac  == IF Len(parts) > 1 THEN parts[2] ELSE ""
    IN  BNorm(BOfDigits(parts[1] \o frac \o SubSeq("000", 1, 3 - Len(frac))))

RECURSIVE SumMills(_)
\* The exact sum, in thousandths, of a sequence of numerals.
SumMills(xs) == IF xs = <<>> THEN <<>> ELSE BAdd(Mills(Head(xs)), SumMills(Tail(xs)))

\* C14: in every transaction pay-bill sends, the bill and the payment, the
\* debits of all line items and the credits of all line items have the same
\* sum, exactly.
C14_PayBillPayloadsBalanced ==
    (argv.cmd = "pay-bill") =>
        \A k \in 1..Len(requests) :
            requests[k].path = "/transactions" =>
                LET items == requests[k].body.lineItems IN
                SumMills([i \in 1..Len(items) |-> AmountOf(items[i], "debit")])
                    = SumMills([i \in 1..Len(items) |-> AmountOf(items[i], "credit")])

\* C16: the payment pay-bill sends is dated --payment-date when one is given
\* and --date otherwise, the payment application carries the same date, and
\* the bill is dated --date.
C16_PaymentDated ==
    (argv.cmd = "pay-bill") =>
        LET expected == IF argv.payment_date # None /\ argv.payment_date[1] # ""
                        THEN argv.payment_date[1] ELSE argv.date
        IN  /\ Len(requests) >= 1 => requests[1].body.transaction.date = argv.date
            /\ Len(requests) >= 2 => requests[2].body.transaction.date = expected
            /\ Len(requests) >= 3 => requests[3].body.appliedDate = expected

\* A completed pay-bill with a payment date that is not the bill date.
C16_PaidLater ==
    /\ argv.cmd = "pay-bill" /\ pc = "done" /\ ~argv.dry_run
    /\ argv.payment_date # None
    /\ argv.payment_date[1] # argv.date
    /\ Len(requests) = 3
    /\ requests[2].body.transaction.date = argv.payment_date[1]
    /\ requests[3].body.appliedDate = argv.payment_date[1]

(***************************************************************************)
(* Properties of the dry-run mode                                          *)
(***************************************************************************)

IsApiErrorLine(l) ==
    /\ l.stream = "stderr"
    /\ l.fmt \in {"API Error {code}: {message}", "Connection error: {reason}"}

\* The run ended in the error api_request raises.
RemoteError == pc = "exit1" /\ \E j \in 1..Len(out) : IsApiErrorLine(out[j])

\* C4, as the specification states it: a dry run sends no request at all and
\* never ends in a RemoteError.
C4_DryRunNoRemoteCall ==
    argv.dry_run => (requests = <<>> /\ ~RemoteError)

\* C4: a dry-run pay-bill or import-report sends no request and never ends in
\* a RemoteError; a dry-run import-vendors sends exactly one request, the
\* GET /vendors listing, sends no creating request, and ends in a RemoteError
\* only when that listing failed.
C4_DryRunOnlyListsVendors ==
    argv.dry_run =>
        /\ argv.cmd \in {"pay-bill", "import-report"} => (requests = <<>> /\ ~RemoteError)
        /\ argv.cmd = "import-vendors" =>
              /\ Len(requests) = (IF pc = "start" THEN 0 ELSE 1)
              /\ \A k \in 1..Len(requests) :
                    requests[k].method = "GET" /\ requests[k].path = "/vendors"
              /\ RemoteError => requests[1].reply = None

\* A dry-run import-vendors that ended normally, having listed the vendors.
C4_DryRunListedVendors ==
    /\ argv.cmd = "import-vendors" /\ argv.dry_run
    /\ pc = "done"
    /\ Len(requests) = 1
    /\ requests[1].method = "GET"
    /\ \E j \in 1..Len(out) : out[j].fmt = "  WOULD CREATE: {name}"

(***************************************************************************)
(* Properties of import-report                                             *)
(***************************************************************************)

\* An import-report past its start, with rows: loc holds the loop's variables.
InReport == argv.cmd = "import-report" /\ argv.rows # <<>> /\ pc # "start"

\* C5: in every transaction import-report builds, the debits of all line
\* items and the credits of all line items have the same sum, exactly.
C5_DebitsEqualCredits ==
    (InReport /\ loc.body # None) =>
        LET items == loc.body[1].lineItems IN
        SumCents([k \in 1..Len(items) |-> items[k].debit])
            = SumCents([k \in 1..Len(items) |-> items[k].credit])

\* The four steps of a row, each failing or not.
DateFails(row)   == parse_date_mdy(strip(row.Date)) = ValueError
AmountFails(row) == parse_money_of[strip(row.Total)] = ValueError
ClassificationFails(row) == map_description(strip(row.Description)) = None
VendorFails(row, db) ==
    LET id == lookup_vendor_id(strip(row.Vendor), db) IN id = None \/ id[1] = 0

ErrorsOfRow(j) == {k \in 1..Len(loc.errors) : loc.errors[k].row = j}

\* C6: no row aborts the run, and every row gone through for which the date,
\* the amount, the classification or the vendor resolution fails has exactly
\* one accumulated error, tagged with its 1-based number.
C6_FailingRowYieldsErrorAndRunGoesOn ==
    (argv.cmd = "import-report") =>
        /\ pc # "traceback"
        /\ InReport =>
             \A j \in 1..(loc.i - 1) :
                 ( \/ DateFails(argv.rows[j])
                   \/ AmountFails(argv.rows[j])
                   \/ ClassificationFails(argv.rows[j])
                   \/ VendorFails(argv.rows[j], loc.db) ) => Cardinality(ErrorsOfRow(j)) = 1

\* Where in out the line is, 0 when it is not there.
LineIndex(l) == IF \E j \in 1..Len(out) : out[j] = l
                THEN CHOOSE j \in 1..Len(out) : out[j] = l
                ELSE 0

\* C7: once a row-level error occurred, no request is sent unless in dry-run
\* mode, and a run that is over has reported every accumulated error, in
\* dry-run mode before the payload; a row whose description matches no rule
\* has an error and no line item.
C7_ErrorsFailTheRunAndAreReported ==
    (InReport /\ loc.errors # <<>>) =>
        /\ ~argv.dry_run => requests = <<>>
        /\ pc \in Ended =>
             \A k \in 1..Len(loc.errors) :
                 /\ LineIndex(Stderr("  {e}", loc.errors[k])) > 0
                 /\ \A j \in 1..Len(out) :
                       out[j].fmt = "[DRY RUN] Would post the above transaction. {body}"
                           => LineIndex(Stderr("  {e}", loc.errors[k])) < j
        /\ \A k \in 1..Len(loc.errors) :
             loc.errors[k].fmt = "no mapping for description '{desc_raw}'"
                 => ClassificationFails(argv.rows[loc.errors[k].row])
        /\ Len(loc.debit_lines) + Len(loc.errors) <= Len(argv.rows)

\* C15: in every line item of every transaction import-report builds, the
\* debit lines of the rows and the balancing line, exactly one of debit and
\* credit is "0.00".
C15_ExactlyOneSideZero ==
    (InReport /\ loc.body # None) =>
        \A k \in 1..Len(loc.body[1].lineItems) :
            LET li == loc.body[1].lineItems[k] IN
            (li.debit = "0.00") # (li.credit = "0.00")

\* Year, month and day of a row's date, as numbers.
ymd(row) ==
    LET parts == split(strip(row.Date), "/")
        y == py_int(parts[3]).v
    IN  <<IF y < 100 THEN y + 2000 ELSE y, py_int(parts[1]).v, py_int(parts[2]).v>>

\* Date a is not before date b.
NotBefore(a, b) ==
    \/ a[1] > b[1]
    \/ a[1] = b[1] /\ a[2] > b[2]
    \/ a[1] = b[1] /\ a[2] = b[2] /\ a[3] >= b[3]

\* The rows whose date the loop parsed: all three fields present, date accepted.
DateParsed(row) ==
    /\ strip(row.Date) # "" /\ strip(row.Description) # "" /\ strip(row.Total) # ""
    /\ ~DateFails(row)

\* C8: the date of the transaction import-report builds is YYYY-MM-DD for the
\* chronologically latest of the dates parsed from the rows, wherever in the
\* file that row stands (and empty when no date was parsed).
C8_DateIsLatestParsed ==
    (InReport /\ loc.body # None) =>
        LET date   == loc.body[1].transaction.date
            parsed == {j \in 1..Len(argv.rows) : DateParsed(argv.rows[j])}
        IN  IF parsed = {} THEN date = ""
            ELSE \E j \in parsed :
                   /\ \A k \in parsed : NotBefore(ymd(argv.rows[j]), ymd(argv.rows[k]))
                   /\ Len(date) = 10
                   /\ LET f == split(date, "-") IN
                      /\ Len(f) = 3
                      /\ <<py_int(f[1]).v, py_int(f[2]).v, py_int(f[3]).v>> = ymd(argv.rows[j])

\* The first row is of 2 October, the second of 10 February, and the
\* transaction built is dated 2 October.
C8_LatestRowStandsFirst ==
    /\ InReport
    /\ loc.body # None
    /\ Len(argv.rows) = 2
    /\ argv.rows[1].Date = "10/2/26"
    /\ argv.rows[2].Date = "2/10/26"
    /\ loc.body[1].transaction.date = "2026-10-02"

\* A row that failed at the vendor resolution, every earlier step passed.
VendorStepFailed(row) ==
    /\ DateParsed(row)
    /\ ~AmountFails(row)
    /\ ~ClassificationFails(row)
    /\ VendorFails(row, loc.db)

\* Why the resolution failed: no alias entry, or no record for the canonical name.
VendorFailureKind(row) ==
    IF DictGet(loc.db.alias_map, lower(strip(row.Vendor))) = None
    THEN "VendorNotMapped" ELSE "VendorNotCreated"

\* C10: import-report tells the two kinds of vendor resolution failure apart:
\* the error of a row whose vendor has no alias entry and the error of a row
\* whose canonical vendor has no record are different messages.
C10_VendorFailureKindsDiffer ==
    InReport =>
        \A a, b \in 1..Len(loc.errors) :
            LET ra == argv.rows[loc.errors[a].row]
                rb == argv.rows[loc.errors[b].row]
            IN  ( /\ VendorStepFailed(ra) /\ VendorStepFailed(rb)
                  /\ VendorFailureKind(ra) # VendorFailureKind(rb) )
                    => loc.errors[a].fmt # loc.errors[b].fmt

(***************************************************************************)
(* Properties of the description classifier                                *)
(***************************************************************************)

Listed == argv.cmd = "import-vendors" /\ requests # <<>> /\ requests[1].reply # None
fetched == requests[1].reply[1]

\* The canonical name matches, case-insensitively, a vendor of the list.
OnRemote(name, list) == \E i \in 1..Len(list) : lower(list[i].name) = lower(name)

\* The record of name in vendors holds the ID of a listed vendor of that name.
Adopted(name, vendors, list) ==
    /\ name \in DOMAIN vendors
    /\ \E i \in 1..Len(list) :
         lower(list[i].name) = lower(name) /\ vendors[name].id = list[i].id

\* C12: import-vendors sends no create request for a canonical name that
\* matches, case-insensitively, a vendor of the list it fetched; every such
\* name gone through has its record set to that vendor's ID, and so has the
\* file once the run has saved.
C12_NoCreateForListedVendor ==
    Listed =>
        /\ \A k \in 2..Len(requests) : ~OnRemote(requests[k].body.name, fetched)
        /\ \A j \in 1..(loc.k - 1) :
             OnRemote(canonical_names[j], fetched)
                 => Adopted(canonical_names[j], loc.db.vendors, fetched)
        /\ pc = "done" =>
             \A j \in 1..Len(canonical_names) :
                 OnRemote(canonical_names[j], fetched)
                     => Adopted(canonical_names[j], vendor_file[1].vendors, fetched)

\* A completed run that created vendors and adopted, for a canonical name
\* listed in another case and with another ID than the file had, the listed ID.
C12_AdoptedOtherCase ==
    /\ Listed
    /\ pc = "done"
    /\ ~argv.dry_run
    /\ Len(requests) > 1
    /\ \E i \in 1..Len(fetched) :
         /\ fetched[i].name = "OPENAI"
         /\ vendor_file[1].vendors["OpenAI"].id = fetched[i].id

\* C19: import-vendors writes the vendor file in its last step only, so a run
\* that a failing create request aborted has left the file as it found it:
\* the vendors this run created remotely have no record in it, and it does
\* not hold the records the run had set in memory.
C19_AbortedRunLeavesFile ==
    /\ [][(argv.cmd = "import-vendors" /\ vendor_file' # vendor_file)
             => (pc = "iv_names" /\ pc' = "done")]_vars
    /\ []( ( /\ Listed /\ ~argv.dry_run
              /\ pc = "exit1"
              /\ requests[Len(requests)].reply = None ) =>
            /\ \A k \in 2..(Len(requests) - 1) :
                  /\ requests[k].body.name \notin DOMAIN load_vendor_db(vendor_file).vendors
                  /\ \E i \in 1..Len(remote_vendors) :
                        remote_vendors[i].name = requests[k].body.name
            /\ \A name \in DOMAIN loc.db.vendors :
                  ( \/ name \notin DOMAIN load_vendor_db(vendor_file).vendors
                    \/ load_vendor_db(vendor_file).vendors[name] # loc.db.vendors[name] )
                    => ( \/ OnRemote(name, fetched)
                         \/ \E k \in 2..(Len(requests) - 1) : requests[k].body.name = name ) )

\* A run aborted by a failing create request after it had created a vendor
\* and adopted a listed ID: neither record is in the file.
C19_AbortedAfterCreateAndAdopt ==
    /\ Listed /\ ~argv.dry_run
    /\ pc = "exit1"
    /\ Len(requests) >= 3
    /\ requests[Len(requests)].reply = None
    /\ requests[2].body.name \notin DOMAIN load_vendor_db(vendor_file).vendors
    /\ \E name \in DOMAIN loc.db.vendors :
         /\ OnRemote(name, fetched)
         /\ name \in DOMAIN load_vendor_db(vendor_file).vendors
         /\ load_vendor_db(vendor_file).vendors[name] # loc.db.vendors[name]

\* The names of VENDOR_ALIASES.
CanonicalSet == {canonical_names[j] : j \in 1..Len(canonical_names)}

\* C20: a dry-run import-vendors sends no create request, and its last step
\* writes the vendor file: every canonical name matching a listed vendor has
\* a record with that vendor's ID, and every other record, and no other, is
\* there as before.
C20_DryRunStillSaves ==
    /\ []( (argv.cmd = "import-vendors" /\ argv.dry_run) =>
              \A k \in 1..Len(requests) : requests[k].method # "POST" )
    /\ [][(argv.cmd = "import-vendors" /\ argv.dry_run /\ pc' = "done") =>
             LET before == load_vendor_db(vendor_file).vendors
                 after  == load_vendor_db(vendor_file').vendors
             IN  /\ vendor_file' # None
                 /\ \A name \in CanonicalSet \cup DOMAIN before \cup DOMAIN after :
                       IF name \in CanonicalSet /\ OnRemote(name, fetched)
                       THEN Adopted(name, after, fetched)
                       ELSE /\ (name \in DOMAIN after) = (name \in DOMAIN before)
                            /\ name \in DOMAIN before => after[name] = before[name]]_vars

\* A dry run that ended with a file adopting the listed ID 8 for OpenAI, which
\* the file had with ID 7, and keeping the record of Acme Tools.
C20_DryRunAdopted ==
    /\ argv.cmd = "import-vendors" /\ argv.dry_run
    /\ pc = "done"
    /\ Len(requests) = 1
    /\ vendor_file # None
    /\ "Acme Tools" \in DOMAIN vendor_file[1].vendors
    /\ vendor_file[1].vendors["OpenAI"].id = 8
    /\ "ARCO" \notin DOMAIN vendor_file[1].vendors

(***************************************************************************)
(* Two invocations at the same time                                        *)
(***************************************************************************)

\* import-vendors and a create-vendor started together.
InitConcurrent ==
    /\ pc = "start"
    /\ loc = <<>>
    /\ requests = <<>>
    /\ out = <<>>
    /\ next_id = FirstRemoteId
    /\ session = <<>>
    /\ peer \in PeerInvocations
    /\ vendor_file \in ImportVendorFiles
    /\ remote_vendors \in RemoteVendorLists
    /\ argv \in ImportVendorsInvocations

NextConcurrent ==
    \/ ImportVendorsFetch
    \/ ImportVendorsName
    \/ ImportVendorsSave
    \/ PeerCreate
    \/ PeerLoad
    \/ PeerSave

SpecConcurrent == InitConcurrent /\ [][NextConcurrent]_vars

\* Both invocations have completed successfully.
BothCompleted == pc = "done" /\ peer[1].pc = "done"

\* C18: nothing merges what two concurrent invocations save: once both have
\* completed, the vendor file holds exactly the records of one of them, the one
\* that saved last, as that one held them when it loaded the file; each holds
\* the records it registered itself, so every record the file lacks was
\* registered by the other alone.
C18_LastSaveWins ==
    BothCompleted =>
        /\ vendor_file[1].vendors \in {loc.db.vendors, peer[1].db[1].vendors}
        /\ peer[1].name \in DOMAIN peer[1].db[1].vendors
        /\ \A k \in 2..Len(requests) :
              requests[k].body.name \in DOMAIN loc.db.vendors

\* Both have completed, the create-vendor registered its vendor with the ID the
\* service returned, and the file import-vendors saved after it lacks the record.
C18_CreatedVendorLost ==
    /\ BothCompleted
    /\ peer[1].vid # None
    /\ peer[1].name \in DOMAIN peer[1].db[1].vendors
    /\ peer[1].name \notin DOMAIN vendor_file[1].vendors
    /\ vendor_file[1].vendors = loc.db.vendors

\* Both have completed, import-vendors created and registered vendors, and the
\* file create-vendor saved after it lacks their records.
C18_ImportedVendorsLost ==
    /\ BothCompleted
    /\ ~argv.dry_run
    /\ Len(requests) > 1
    /\ \A k \in 2..Len(requests) :
          /\ requests[k].body.name \in DOMAIN loc.db.vendors
          /\ requests[k].body.name \notin DOMAIN vendor_file[1].vendors

(***************************************************************************)
(* Properties of a session                                                 *)
(***************************************************************************)

\* The invocation before this one was an import-vendors, no dry run, that ran
\* to completion, and this one is an import-vendors whose listing was answered.
SecondImport ==
    /\ session # <<>>
    /\ session[Len(session)].argv.cmd = "import-vendors"
    /\ ~session[Len(session)].argv.dry_run
    /\ session[Len(session)].ended = "done"
    /\ Listed

\* What the first of the two runs fetched, and the vendors it created.
first_fetched == session[Len(session)].requests[1].reply[1]
first_created ==
    LET rs == session[Len(session)].requests IN
    [k \in 1..(Len(rs) - 1) |-> [id |-> rs[k + 1].reply[1], name |-> rs[k + 1].body.name]]

\* C11: an import-vendors that follows a completed import-vendors and is
\* answered the same vendor list (or that list followed by the vendors the
\* first run created) sends no create request, and the vendors it holds, and
\* saves, are those the first run saved.
C11_SecondImportCreatesNothing ==
    ( /\ SecondImport
      /\ fetched \in {first_fetched, first_fetched \o first_created} ) =>
        /\ \A k \in 1..Len(requests) : requests[k].method # "POST"
        /\ load_vendor_db(vendor_file).vendors = session[Len(session)].vendor_file[1].vendors
        /\ pc = "done" => loc.db.vendors = session[Len(session)].vendor_file[1].vendors

\* A second import-vendors, no dry run, that ran to completion on the very
\* list of the first, which had created vendors.
C11_SecondImportDone ==
    /\ SecondImport
    /\ ~argv.dry_run
    /\ pc = "done"
    /\ Len(session[Len(session)].requests) > 1
    /\ fetched = first_fetched
    /\ Len(requests) = 1

\* C17: no step of any command takes a name out of the vendor file: the names
\* that have a record before the step have one after it.
C17_RecordsNeverDeleted ==
    [][DOMAIN load_vendor_db(vendor_file).vendors
           \subseteq DOMAIN load_vendor_db(vendor_file').vendors]_vars

\* An import-vendors has saved the file after a create-vendor had recorded
\* Acme Tools in it: the record is still there, beside the canonical names'.
C17_SavedOverEarlierRecord ==
    /\ session # <<>>
    /\ session[Len(session)].argv.cmd = "create-vendor"
    /\ session[Len(session)].ended = "done"
    /\ argv.cmd = "import-vendors"
    /\ pc = "done"
    /\ vendor_file # session[Len(session)].vendor_file
    /\ "Acme Tools" \in DOMAIN vendor_file[1].vendors
    /\ "ARCO" \in DOMAIN vendor_file[1].vendors

====
